---- MODULE Spec2Model ----
(***************************************************************************)
(* ScholarAgent.chat_stream (src/backend/researcher.py): the streaming     *)
(* research orchestration engine, as a state machine.  One request is      *)
(* followed from its first event to its terminal event.  The model service *)
(* (plain calls, streaming calls, the source-repair call) and the HTTP     *)
(* fetches of redirect resolution are the environment: each call returns a *)
(* value drawn from a small menu or raises.                                *)
(*                                                                         *)
(* Text is a sequence of units (a unit is an indivisible piece of text: a  *)
(* line or a phrase); character offsets of the source are unit offsets     *)
(* here.                                                                   *)
(*                                                                         *)
(* Spec follows one request under DEEP_RESEARCH_MIN_SECONDS = 0 (its       *)
(* default), where the wait loop of lines 403-410 has no iteration.        *)
(* FnSpec applies the pure helpers (the quality gate, _build_source_map,   *)
(* _insert_citations) to arguments of their own, ResolveSpec follows the   *)
(* fetch tasks of one _resolve_redirects call, and WaitSpec follows the    *)
(* wait loop for every value of DEEP_RESEARCH_MIN_SECONDS, with time       *)
(* counted in ticks.                                                       *)
(***************************************************************************)
EXTENDS Integers, Sequences, FiniteSets, TLC

\* ------------------------------------------------------------------ bounds
MaxPasses == 2      \* DEEP_RESEARCH_PASSES ranges over 0..MaxPasses
MaxChunks == 2      \* chunks the model service streams in one request
MaxChunkUrls == 4   \* grounding chunks of one _build_source_map call
MaxTextLen == 3     \* units of text of one _insert_citations call
MaxSupports == 2    \* supports of one _insert_citations call
MaxUrls == 5        \* urls of one _resolve_redirects call
MaxFloor == 12      \* DEEP_RESEARCH_MIN_SECONDS ranges over -1..MaxFloor
TicksPerSecond == 2 \* resolution of the clock
MaxGather == 3      \* ticks the gathering phase takes at most
MaxLate == 1        \* ticks a sleep lasts longer than requested at most
MaxWaits == 4       \* iterations of the wait loop followed

\* ------------------------------------------------------------- constants
MinSources == 3     \* len(sources_list) < 3
MinWords == 600     \* word_count < 600
OutlineLines == 6   \* numbered >= 6
SemPermits == 4     \* sem = asyncio.Semaphore(4)
MaxSleep == 10      \* asyncio.sleep(min(10, remaining))

\* -------------------------------------------------------------------- URLs
None == ""
SvgNs == "http://www.w3.org/2000/svg"
UrlA == "https://a.example/10k"
UrlB == "https://b.example/q3"
UrlC == "https://c.example/news"
UrlD == "https://d.example/filing"
UrlE == "https://e.example/transcript"
Carrier1 == "https://vertexaisearch.cloud.google.com/grounding-api-redirect/1"
Carrier2 == "https://vertexaisearch.cloud.google.com/grounding-api-redirect/2"

\* Python's string order on the URLs above (what sorted() uses).
UrlOrder == <<SvgNs, UrlA, UrlB, UrlC, UrlD, UrlE, Carrier1, Carrier2>>

\* The web: where a successful fetch of u lands (str(resp.url)).  Carrier1
\* redirects to UrlA; Carrier2 answers without leaving the redirect host.
Landing(u) == IF u = Carrier1 THEN UrlA ELSE u

_is_redirect(url) == url \in {Carrier1, Carrier2}

_clean_url(url) ==
    IF url = None THEN None
    ELSE IF url = SvgNs THEN None
    ELSE url

\* ------------------------------------------------------------ sequences
RECURSIVE Dedupe(_, _)
Dedupe(s, seen) ==
    IF s = <<>> THEN <<>>
    ELSE IF Head(s) \in seen THEN Dedupe(Tail(s), seen)
    ELSE <<Head(s)>> \o Dedupe(Tail(s), seen \cup {Head(s)})

Range(s) == {s[i] : i \in 1..Len(s)}

RECURSIVE Concat(_)
Concat(ss) == IF ss = <<>> THEN <<>> ELSE Head(ss) \o Concat(Tail(ss))

RECURSIVE SortedInts(_)
SortedInts(S) ==
    IF S = {} THEN <<>>
    ELSE LET m == CHOOSE x \in S : \A y \in S : x <= y
         IN  <<m>> \o SortedInts(S \ {m})

\* sorted(set_of_urls)
SortedUrls(S) == SelectSeq(UrlOrder, LAMBDA u : u \in S)

NotRedirectNotNull(u) == _clean_url(u) # None /\ ~_is_redirect(_clean_url(u))

_filter_sources(urls) ==
    LET cleaned == SelectSeq(urls, NotRedirectNotNull)
    IN  Dedupe(cleaned, {})

\* _resolve_redirects: ok[i] says whether the fetch of urls[i] succeeded;
\* a failed fetch (timeout, network error) gives back urls[i].
_resolve_redirects(urls, ok) ==
    IF urls = <<>> THEN <<>>
    ELSE [i \in 1..Len(urls) |-> IF ok[i] THEN Landing(urls[i]) ELSE urls[i]]

\* -------------------------------------------------------------------- text
Txt(s) == [k |-> "text", s |-> s, n |-> <<>>, u |-> None]
Hdr == [k |-> "hdr", s |-> "Sources", n |-> <<>>, u |-> None]
Src(i, title, url) == [k |-> "src", s |-> title, n |-> <<i>>, u |-> url]
Cite(ns) == [k |-> "cite", s |-> " ", n |-> ns, u |-> None]

Hello == Txt("hello")
Report == Txt("full report")
Refusal == Txt("i cannot directly")
Numbered == Txt("1. item")
Heading == Txt("# heading")

\* a stretch of n plain words
Words(n) == [k |-> "text", s |-> "words", n |-> <<n>>, u |-> None]

\* text.lower() on the strings above
Lower(s) == IF s = "I Cannot Directly" THEN "i cannot directly" ELSE s

Triggers == {"search queries", "i can help you gather", "i can't directly",
             "i cannot directly", "use a word processor", "suggested outline",
             "you can then use", "i can provide the content"}

\* len(unit.split())
UnitWords(unit) ==
    IF unit = Report THEN MinWords
    ELSE IF unit.k = "cite" THEN Len(unit.n)
    ELSE IF unit.k = "src" THEN (IF unit.u = None THEN 2 ELSE 4)
    ELSE IF unit.s = "words" THEN unit.n[1]
    ELSE IF Lower(unit.s) = "i cannot directly" THEN 3
    ELSE IF unit.s \in {"search queries", "1. item", "# heading"} THEN 2
    ELSE 1

RECURSIVE WordCount(_)
WordCount(text) ==
    IF text = <<>> THEN 0 ELSE UnitWords(Head(text)) + WordCount(Tail(text))

_needs_regen(text) ==
    \E i \in 1..Len(text) : text[i].k = "text" /\ Lower(text[i].s) \in Triggers

IsNumbered(unit) == unit = Numbered
IsHeading(unit) == unit = Heading

_looks_like_outline(text) ==
    IF text = <<>> THEN TRUE
    ELSE LET numbered == Cardinality({i \in 1..Len(text) : IsNumbered(text[i])})
             headings == Cardinality({i \in 1..Len(text) : IsHeading(text[i])})
         IN  numbered >= OutlineLines /\ headings = 0 /\ WordCount(text) < MinWords

\* ------------------------------------------------------ grounding metadata
\* A grounding metadata object: chunks holds each chunk's raw uri (None when
\* the chunk carries none), supports holds {end, indices}; end is <<>> for a
\* support without a segment end and <<n>> otherwise.  Indices are 0-based.
Support(end, indices) == [end |-> end, indices |-> indices]

_parse_grounding(gm) ==
    [chunk_urls |-> [i \in 1..Len(gm.chunks) |-> _clean_url(gm.chunks[i])],
     supports   |-> gm.supports]

\* _extract_grounding_urls(resp): every truthy chunk uri of the response.
_extract_grounding_urls(chunk) ==
    IF chunk.gm = <<>> THEN {}
    ELSE {u \in Range(chunk.gm[1].chunks) : u # None}

\* _extract_urls(resp): every http(s) URL found anywhere in the payload: the
\* grounding uris, the URLs written in the text, and any other field.
_extract_urls(chunk) ==
    _extract_grounding_urls(chunk)
        \cup ({chunk.text[i].u : i \in 1..Len(chunk.text)} \ {None})
        \cup chunk.urls

\* _build_source_map: the loop of lines 183-192 from position idx (0-based)
\* on, with the accumulators sources and index_map (seen[url] is the
\* 1-based position of url in sources).
RECURSIVE BuildFrom(_, _, _, _)
BuildFrom(chunk_urls, idx, sources, index_map) ==
    IF idx >= Len(chunk_urls) THEN [sources |-> sources, index_map |-> index_map]
    ELSE LET url == chunk_urls[idx + 1]
         IN  IF url = None
             THEN BuildFrom(chunk_urls, idx + 1, sources, index_map)
             ELSE IF url \in Range(sources)
             THEN LET seen == CHOOSE j \in 1..Len(sources) : sources[j] = url
                  IN  BuildFrom(chunk_urls, idx + 1, sources,
                                index_map @@ (idx :> seen))
             ELSE BuildFrom(chunk_urls, idx + 1, Append(sources, url),
                            index_map @@ (idx :> Len(sources) + 1))

EmptyMap == [i \in {} |-> 0]

\* mutant: a url seen before is listed again under a new display index
_build_source_map_NoSeen(chunk_urls) ==
    [sources   |-> SelectSeq(chunk_urls, LAMBDA u : u # None),
     index_map |-> [i \in {j - 1 : j \in {k \in 1..Len(chunk_urls) : chunk_urls[k] # None}} |->
                       Cardinality({j \in 1..(i + 1) : chunk_urls[j] # None})]]

_build_source_map(chunk_urls) == BuildFrom(chunk_urls, 0, <<>>, EmptyMap)

\* mutant: the marker shows the chunk's position, not its display index
Numbers_ChunkIndex(support, index_map) ==
    {i + 1 : i \in Range(support.indices) \cap DOMAIN index_map}

\* numbers = [index_map[i] for i in support["indices"] if i in index_map]
Numbers(support, index_map) ==
    {index_map[i] : i \in Range(support.indices) \cap DOMAIN index_map}

Clamp(end, len) ==
    LET m == IF end < len THEN end ELSE len
    IN  IF m > 0 THEN m ELSE 0

\* mutant: a position keeps the numbers of its first support only
Inserts_FirstSupportOnly(text, supports, index_map) ==
    LET live == {j \in 1..Len(supports) :
                    /\ supports[j].end # <<>>
                    /\ Numbers(supports[j], index_map) # {}}
        pos(j) == Clamp(supports[j].end[1], Len(text))
    IN  [p \in {pos(j) : j \in live} |->
            Numbers(supports[CHOOSE j \in live :
                                 pos(j) = p /\ \A i \in live : pos(i) = p => j <= i],
                    index_map)]

\* inserts: pos -> set of display indices (lines 198-207)
Inserts(text, supports, index_map) ==
    LET live == {j \in 1..Len(supports) :
                    /\ supports[j].end # <<>>
                    /\ Numbers(supports[j], index_map) # {}}
        pos(j) == Clamp(supports[j].end[1], Len(text))
    IN  [p \in {pos(j) : j \in live} |->
            UNION {Numbers(supports[j], index_map) : j \in {i \in live : pos(i) = p}}]

\* mutant: each piece starts one unit further, as if the marker inserted
\* before it had taken a place in the text
RECURSIVE Emit_Shifted(_, _, _, _)
Emit_Shifted(text, inserts, positions, last) ==
    IF positions = <<>> THEN SubSeq(text, last + 1, Len(text))
    ELSE LET pos == Head(positions)
         IN  SubSeq(text, last + 1, pos)
                 \o <<Cite(SortedInts(inserts[pos]))>>
                 \o Emit_Shifted(text, inserts, Tail(positions), pos + 1)

\* lines 212-220: the pieces of text between the sorted positions, each
\* followed by its marker group
RECURSIVE Emit(_, _, _, _)
Emit(text, inserts, positions, last) ==
    IF positions = <<>> THEN SubSeq(text, last + 1, Len(text))
    ELSE LET pos == Head(positions)
         IN  SubSeq(text, last + 1, pos)
                 \o <<Cite(SortedInts(inserts[pos]))>>
                 \o Emit(text, inserts, Tail(positions), pos)

_insert_citations(text, supports, index_map) ==
    IF supports = <<>> \/ DOMAIN index_map = {} THEN text
    ELSE LET inserts == Inserts(text, supports, index_map)
         IN  IF DOMAIN inserts = {} THEN text
             ELSE Emit(text, inserts, SortedInts(DOMAIN inserts), 0)

\* lines 463-474: resolve the non-null chunk urls and put them back in
\* place, nulling what is still a redirect carrier
Rank(chunk_urls, i) == Cardinality({j \in 1..i : chunk_urls[j] # None})

NormalizeChunkUrls(chunk_urls, ok) ==
    LET resolved == _resolve_redirects(
                        SelectSeq(chunk_urls, LAMBDA u : u # None), ok)
    IN  [i \in 1..Len(chunk_urls) |->
            IF chunk_urls[i] # None
            THEN LET resolved_url == _clean_url(resolved[Rank(chunk_urls, i)])
                 IN  IF resolved_url # None /\ _is_redirect(resolved_url)
                     THEN None ELSE resolved_url
            ELSE None]

\* The fetch outcomes one resolution phase can have for these chunk urls.
FetchOutcomes(chunk_urls) ==
    [1..Cardinality({j \in 1..Len(chunk_urls) : chunk_urls[j] # None}) -> BOOLEAN]

\* ------------------------------------------------------------ source repair
IsSourcesHeader(unit) == unit.k = "hdr"

\* _extract_sources_block: the lines after the first Sources header, up to
\* a second header
_extract_sources_block(text) ==
    LET H == {i \in 1..Len(text) : IsSourcesHeader(text[i])}
    IN  IF H = {} THEN <<>>
        ELSE LET first == CHOOSE i \in H : \A j \in H : i <= j
                 later == {i \in H : i > first}
                 stop  == IF later = {} THEN Len(text) + 1
                          ELSE CHOOSE i \in later : \A j \in later : i <= j
             IN  SubSeq(text, first + 1, stop - 1)

\* _parse_sources_lines: "[n] Title — URL" gives {title, url}; a line
\* without a URL gives {title, None}
_parse_sources_lines(lines) ==
    [i \in 1..Len(lines) |-> [title |-> lines[i].s, url |-> lines[i].u]]

Missing(parsed) == {i \in 1..Len(parsed) : parsed[i].url = None}

\* lines 297-305 of _repair_sources: a reply is {ok, url_map}; ok is FALSE
\* for a reply json.loads or data.get rejects, url_map is title -> url.
ApplyReply(parsed, reply) ==
    IF ~reply.ok THEN parsed
    ELSE [i \in 1..Len(parsed) |->
            IF parsed[i].url = None
            THEN [parsed[i] EXCEPT !.url =
                    IF parsed[i].title \in DOMAIN reply.url_map
                    THEN reply.url_map[parsed[i].title] ELSE None]
            ELSE parsed[i]]

\* re.sub(r"\n(?:#{1,3}\s*)?Sources\s*\n[\s\S]*$", "", text): cut from the
\* first header that has a line before it and a line after it
StripSources(text) ==
    LET H == {i \in 2..(Len(text) - 1) : IsSourcesHeader(text[i])}
    IN  IF H = {} THEN text
        ELSE SubSeq(text, 1, (CHOOSE i \in H : \A j \in H : i <= j) - 1)

\* line 563
RepairedUrls(repaired) ==
    LET withUrl == SelectSeq(repaired, LAMBDA item : item.url # None)
    IN  [i \in 1..Len(withUrl) |-> withUrl[i].url]

\* line 566: enumerate(repaired) numbers every item, the filter then keeps
\* the items that have a url
RECURSIVE RepairedLines(_, _)
RepairedLines(repaired, i) ==
    IF i > Len(repaired) THEN <<>>
    ELSE (IF repaired[i].url # None
          THEN <<Src(i, repaired[i].title, repaired[i].url)>> ELSE <<>>)
         \o RepairedLines(repaired, i + 1)

\* line 565
RewriteSources(text, repaired) ==
    StripSources(text) \o <<Hdr>> \o RepairedLines(repaired, 1)

\* ------------------------------------------------------------- the gate
\* mutant: three sources are still too few
ShouldRegen_AtMostThree(text, deep, sources) ==
    \/ _needs_regen(text)
    \/ (deep /\ (Len(sources) <= MinSources \/ _looks_like_outline(text)))
    \/ (deep /\ WordCount(text) < MinWords)

\* lines 487-491
ShouldRegen(text, deep, sources) ==
    \/ _needs_regen(text)
    \/ (deep /\ (Len(sources) < MinSources \/ _looks_like_outline(text)))
    \/ (deep /\ WordCount(text) < MinWords)

\* --------------------------------------------------------- mode classifier
Keywords == {<<"deep", "research">>, <<"report">>, <<"outline">>, <<"trends">>,
             <<"deep", "dive">>, <<"earnings">>, <<"analysis">>,
             <<"due", "diligence">>, <<"investment", "memo">>, <<"memo">>}

_wants_deep_research(text) ==
    \E k \in Keywords : \E i \in 1..Len(text) :
        i + Len(k) - 1 <= Len(text) /\ SubSeq(text, i, i + Len(k) - 1) = k

\* ------------------------------------------------------------------ events
Event(type, content, sources) ==
    [type |-> type, content |-> content, sources |-> sources]
Status(s) == Event("status", <<Txt(s)>>, <<>>)
StatusPass(i, n) ==
    Event("status", <<[k |-> "text", s |-> "Research pass", n |-> <<i, n>>, u |-> None]>>, <<>>)
\* mutant: the token event carries the first line of the fragment only
Token_FirstLine(text) == Event("token", SubSeq(text, 1, 1), <<>>)

Token(text) == Event("token", text, <<>>)
Log(query) == Event("log", <<Txt("Searching for: "), Txt(query)>>, <<>>)
Error(description) == Event("error", <<Txt(description)>>, <<>>)
Final(text, sources) == Event("final", text, sources)

\* lines 452-456
RECURSIVE Logs(_)
Logs(function_calls) ==
    IF function_calls = <<>> THEN <<>>
    ELSE LET fc == Head(function_calls)
         IN  (IF fc.name = "google_search"
              THEN <<Log(IF fc.query = <<>> THEN "Unknown query" ELSE fc.query[1])>>
              ELSE <<>>)
             \o Logs(Tail(function_calls))

\* ------------------------------------------------------- the environment
\* What the model service can answer.  A response (a stream chunk or a plain
\* reply) is {text, function_calls, gm, urls}: gm is <<>> or <<metadata>>,
\* urls are the URLs found in fields other than the text and the grounding.
Response(text, function_calls, gm, urls) ==
    [text |-> text, function_calls |-> function_calls, gm |-> gm, urls |-> urls]

Search(query) == [name |-> "google_search", query |-> query]

GmRich ==
    [chunks   |-> <<UrlA, Carrier1, SvgNs, UrlB, UrlC>>,
     supports |-> <<Support(<<1>>, <<0, 1>>),
                    Support(<<9>>, <<1, 2, 4, 7>>),
                    Support(<<>>, <<3>>),
                    Support(<<-2>>, <<3>>)>>]
GmCarrier ==
    [chunks   |-> <<Carrier1, None>>,
     supports |-> <<Support(<<0>>, <<0, 1>>)>>]

ChunkToken == Response(<<Hello>>, <<>>, <<>>, {})
ChunkLong == Response(<<Report>>, <<Search(<<"nvidia q3">>)>>, <<>>, {})
ChunkGrounded == Response(<<>>, <<>>, <<GmRich>>, {})
ChunkUrls ==
    Response(<<Hello>>, <<Search(<<>>), [name |-> "other_tool", query |-> <<>>]>>,
             <<>>, {UrlB, UrlC, UrlD, Carrier1})
ChunkCarrierGm == Response(<<>>, <<>>, <<GmCarrier>>, {})
ChunkRefusal == Response(<<Refusal>>, <<>>, <<>>, {})
ChunkTitles ==
    Response(<<Report, Hdr, Src(1, "10-K", None), Src(2, "Q3 call", None)>>,
             <<>>, <<>>, {})
ChunkCarrierLine ==
    Response(<<Hdr, Src(1, "10-K", Carrier2)>>, <<>>, <<>>, {})

Chunks == {ChunkToken, ChunkLong, ChunkGrounded, ChunkUrls, ChunkCarrierGm,
           ChunkRefusal, ChunkTitles, ChunkCarrierLine}

NotesPlain == Response(<<Txt("notes")>>, <<>>, <<>>, {})
NotesUrls == Response(<<Txt("notes")>>, <<>>, <<>>, {UrlB, UrlC, UrlD, UrlE, Carrier1})
NotesReplies == {NotesPlain, NotesUrls}

\* Replies of the source-repair call.
Reply(ok, url_map) == [ok |-> ok, url_map |-> url_map]
RepairReplies ==
    {Reply(FALSE, EmptyMap),
     Reply(TRUE, [t \in {"10-K"} |-> UrlA]),
     Reply(TRUE, [t \in {"10-K", "Q3 call"} |-> UrlA]),
     Reply(TRUE, [t \in {"Q3 call"} |-> Carrier2]),
     Reply(TRUE, [t \in {"Q3 call"} |-> UrlB]),
     Reply(TRUE, [t \in {"other"} |-> UrlB])}

Failures == {"503 UNAVAILABLE", "GOOGLE_API_KEY is not set."}

Requests == {<<"what", "is", "rna">>, <<"nvidia", "earnings", "report">>}

\* ------------------------------------------------------------------- state
VARIABLES request, pc, events, calls, fetched, yielded, raised,
          is_deep, passes, idx, research_notes, pre_source_set,
          source_set, full_response_text, last_grounding,
          normalized_chunk_urls, index_map, cited_text, sources_list,
          regen_source_set, regen_text, regen_grounding, repaired

\* One helper of chat_stream called on its own: call is the helper and its
\* arguments, ret its return value; sem and tasks are the semaphore and the
\* fetch tasks of one _resolve_redirects call.
VARIABLES call, ret, sem, tasks

\* The minimum-time wait of deep research on its own: clock is the time
\* since start_time (time.monotonic() - start_time) in ticks, elapsed and
\* min_seconds are the locals of these names (elapsed in ticks), and sleeps
\* are the arguments of the asyncio.sleep calls so far, in seconds.
VARIABLES clock, elapsed, min_seconds, sleeps

streamVars == <<request, pc, events, calls, fetched, yielded, raised,
                is_deep, passes, idx, research_notes, pre_source_set,
                source_set, full_response_text, last_grounding,
                normalized_chunk_urls, index_map, cited_text, sources_list,
                regen_source_set, regen_text, regen_grounding, repaired>>

waitVars == <<clock, elapsed, min_seconds, sleeps>>

helperVars == <<call, ret, sem, tasks, waitVars>>

vars == <<streamVars, helperVars>>

gatherVars == <<idx, research_notes, pre_source_set>>
synthVars == <<source_set, full_response_text, last_grounding>>
regenVars == <<regen_source_set, regen_text, regen_grounding>>
resultVars == <<normalized_chunk_urls, index_map, cited_text, sources_list, repaired>>

NoReturn == [done |-> FALSE]

\* no helper is called on its own
NoCall ==
    /\ call = [fn |-> "chat_stream"]
    /\ ret = NoReturn
    /\ sem = 0
    /\ tasks = <<>>

\* DEEP_RESEARCH_MIN_SECONDS has its default "0": the loop of lines 403-410
\* has no iteration
NoWait ==
    /\ clock = 0
    /\ elapsed = 0
    /\ min_seconds = 0
    /\ sleeps = <<>>

\* nothing has happened in the request yet
Fresh ==
    /\ events = <<>>
    /\ calls = <<>>
    /\ fetched = <<>>
    /\ yielded = 0
    /\ raised = None
    /\ is_deep = FALSE
    /\ passes = 0
    /\ idx = 0
    /\ research_notes = <<>>
    /\ pre_source_set = {}
    /\ source_set = {}
    /\ full_response_text = <<>>
    /\ last_grounding = <<>>
    /\ normalized_chunk_urls = <<>>
    /\ index_map = EmptyMap
    /\ cited_text = <<>>
    /\ sources_list = <<>>
    /\ regen_source_set = {}
    /\ regen_text = <<>>
    /\ regen_grounding = <<>>
    /\ repaired = <<>>

Init ==
    /\ request \in Requests
    /\ pc = "start"
    /\ Fresh
    /\ NoCall
    /\ NoWait

\* no request is being served
Idle ==
    /\ request = <<>>
    /\ pc = "idle"
    /\ Fresh

\* mutant: the handler emits the error and control reaches the final yield
Fail_FallsThrough(emitted, description) ==
    /\ events' = emitted \o <<Error(description)>>
    /\ pc' = "final"

\* mutant: the handler reports a fixed message instead of str(e)
Fail_GenericMessage(emitted, description) ==
    /\ events' = emitted \o <<Error("Internal error")>>
    /\ pc' = "error"

\* except Exception as e: yield error (lines 575-576)
Fail(emitted, description) ==
    /\ events' = emitted \o <<Error(description)>>
    /\ pc' = "error"

\* lines 366-376
Analyze ==
    /\ pc = "start"
    /\ is_deep' = _wants_deep_research(request)
    /\ events' = events \o <<Status("Analyzing request...")>>
                   \o (IF is_deep' THEN <<Status("Deep research mode: planning research...")>>
                       ELSE <<>>)
    /\ \E p \in 0..MaxPasses :
          /\ passes' = (IF is_deep' THEN p ELSE 0)
          /\ pc' = (IF is_deep' /\ p > 0 THEN "gather" ELSE "synthesize")
    /\ UNCHANGED <<helperVars, request, calls, fetched, yielded, raised, gatherVars,
                   synthVars, resultVars, regenVars>>

\* mutant: the pass makes its call without announcing itself
GatherReturn_NoStatus(reply) ==
    /\ pc = "gather"
    /\ calls' = Append(calls, "notes")
    /\ research_notes' = (IF reply.text # <<>> THEN Append(research_notes, reply.text)
                          ELSE research_notes)
    /\ pre_source_set' = pre_source_set \cup _extract_grounding_urls(reply)
                            \cup _extract_urls(reply)
    /\ idx' = idx + 1
    /\ pc' = (IF idx + 1 < passes THEN "gather" ELSE "synthesize")
    /\ UNCHANGED <<helperVars, request, events, fetched, yielded, raised, is_deep, passes,
                   synthVars, resultVars, regenVars>>

\* lines 377-398, the plain call returns
GatherReturn(reply) ==
    /\ pc = "gather"
    /\ events' = Append(events, StatusPass(idx + 1, passes))
    /\ calls' = Append(calls, "notes")
    /\ research_notes' = (IF reply.text # <<>> THEN Append(research_notes, reply.text)
                          ELSE research_notes)
    /\ pre_source_set' = pre_source_set \cup _extract_grounding_urls(reply)
                            \cup _extract_urls(reply)
    /\ idx' = idx + 1
    /\ pc' = (IF idx + 1 < passes THEN "gather" ELSE "synthesize")
    /\ UNCHANGED <<helperVars, request, fetched, yielded, raised, is_deep, passes,
                   synthVars, resultVars, regenVars>>

\* lines 377-392, the plain call raises
GatherRaise(description) ==
    /\ pc = "gather"
    /\ calls' = Append(calls, "notes")
    /\ raised' = description
    /\ Fail(Append(events, StatusPass(idx + 1, passes)), description)
    /\ UNCHANGED <<helperVars, request, fetched, yielded, is_deep, passes, gatherVars,
                   synthVars, resultVars, regenVars>>

\* lines 412-440
StartSynthesis ==
    /\ pc = "synthesize"
    /\ calls' = Append(calls, "synthesis")
    /\ pc' = "stream"
    /\ UNCHANGED <<helperVars, request, events, fetched, yielded, raised, is_deep, passes,
                   gatherVars, synthVars, resultVars, regenVars>>

\* mutant: the text is accumulated but no token event is emitted for it
SynthChunk_NoToken(chunk) ==
    /\ pc = "stream"
    /\ yielded < MaxChunks
    /\ yielded' = yielded + 1
    /\ source_set' = source_set \cup _extract_grounding_urls(chunk)
                        \cup _extract_urls(chunk)
    /\ last_grounding' = (IF chunk.gm # <<>> THEN chunk.gm ELSE last_grounding)
    /\ full_response_text' = full_response_text \o chunk.text
    /\ events' = events \o Logs(chunk.function_calls)
    /\ UNCHANGED <<helperVars, request, pc, calls, fetched, raised, is_deep, passes,
                   gatherVars, resultVars, regenVars>>

\* lines 441-456, one chunk of the synthesis stream
SynthChunk(chunk) ==
    /\ pc = "stream"
    /\ yielded < MaxChunks
    /\ yielded' = yielded + 1
    /\ source_set' = source_set \cup _extract_grounding_urls(chunk)
                        \cup _extract_urls(chunk)
    /\ last_grounding' = (IF chunk.gm # <<>> THEN chunk.gm ELSE last_grounding)
    /\ full_response_text' = full_response_text \o chunk.text
    /\ events' = events
                   \o (IF chunk.text # <<>> THEN <<Token(chunk.text)>> ELSE <<>>)
                   \o Logs(chunk.function_calls)
    /\ UNCHANGED <<helperVars, request, pc, calls, fetched, raised, is_deep, passes,
                   gatherVars, resultVars, regenVars>>

\* the synthesis stream raises
SynthRaise(description) ==
    /\ pc = "stream"
    /\ raised' = description
    /\ Fail(events, description)
    /\ UNCHANGED <<helperVars, request, calls, fetched, yielded, is_deep, passes,
                   gatherVars, synthVars, resultVars, regenVars>>

\* lines 461-476 and 537-551: the grounding path of one pass.  grounding is
\* <<>> when the stream carried no grounding metadata.
GroundingStep(text, grounding, ok) ==
    IF grounding = <<>>
    THEN [normalized |-> <<>>, index_map |-> EmptyMap, sources |-> <<>>,
          cited |-> text, fetches |-> <<>>]
    ELSE LET parsed == _parse_grounding(grounding[1])
             norm   == NormalizeChunkUrls(parsed.chunk_urls, ok)
             built  == _build_source_map(norm)
         IN  [normalized |-> norm,
              index_map  |-> built.index_map,
              sources    |-> built.sources,
              cited      |-> _insert_citations(text, parsed.supports, built.index_map),
              fetches    |-> SelectSeq(parsed.chunk_urls, LAMBDA u : u # None)]

ChunkUrlsOf(grounding) ==
    IF grounding = <<>> THEN <<>> ELSE _parse_grounding(grounding[1]).chunk_urls

\* mutant: the gathering pool is consulted before the stream's URLs
SynthFallback_PoolFirst(sources, stream_urls, pool) ==
    LET s1 == IF sources = <<>> /\ pool # {}
              THEN _filter_sources(SortedUrls(pool)) ELSE sources
        s2 == IF s1 = <<>> /\ stream_urls # {}
              THEN _filter_sources(SortedUrls(stream_urls)) ELSE s1
    IN  IF s2 # <<>> THEN _filter_sources(s2) ELSE s2

\* lines 478-485
SynthFallback(sources, stream_urls, pool) ==
    LET s1 == IF sources = <<>> /\ stream_urls # {}
              THEN _filter_sources(SortedUrls(stream_urls)) ELSE sources
        s2 == IF s1 = <<>> /\ pool # {}
              THEN _filter_sources(SortedUrls(pool)) ELSE s1
    IN  IF s2 # <<>> THEN _filter_sources(s2) ELSE s2

\* lines 553-557
RegenFallback(sources, stream_urls) ==
    LET s1 == IF sources = <<>> /\ stream_urls # {}
              THEN _filter_sources(SortedUrls(stream_urls)) ELSE sources
    IN  IF s1 # <<>> THEN _filter_sources(s1) ELSE s1

\* lines 458-485: the synthesis stream is exhausted
ResolveSources(ok) ==
    /\ pc = "stream"
    /\ LET g == GroundingStep(full_response_text, last_grounding, ok)
       IN  /\ normalized_chunk_urls' = g.normalized
           /\ index_map' = g.index_map
           /\ cited_text' = g.cited
           /\ sources_list' = SynthFallback(g.sources, source_set, pre_source_set)
           /\ fetched' = fetched \o g.fetches
    /\ pc' = "gate"
    /\ UNCHANGED <<helperVars, request, events, calls, yielded, raised, is_deep, passes,
                   gatherVars, synthVars, regenVars, repaired>>

\* mutant: the source list of the original pass is not cleared
RegenStart_KeepSources(text, sources) == [cited |-> text, sources |-> sources]

\* line 534-535: what regeneration starts its own result from
RegenStart(text, sources) == [cited |-> text, sources |-> <<>>]

\* lines 487-522: the gate asks for regeneration
Regenerate ==
    /\ pc = "gate"
    /\ ShouldRegen(full_response_text, is_deep, sources_list)
    /\ events' = Append(events, Status("Deep research mode: refining report..."))
    /\ calls' = Append(calls, "regeneration")
    /\ pc' = "regen_stream"
    /\ UNCHANGED <<helperVars, request, fetched, yielded, raised, is_deep, passes,
                   gatherVars, synthVars, resultVars, regenVars>>

\* lines 523-532, one chunk of the regeneration stream
RegenChunk(chunk) ==
    /\ pc = "regen_stream"
    /\ yielded < MaxChunks
    /\ yielded' = yielded + 1
    /\ regen_source_set' = regen_source_set \cup _extract_grounding_urls(chunk)
                              \cup _extract_urls(chunk)
    /\ regen_grounding' = (IF chunk.gm # <<>> THEN chunk.gm ELSE regen_grounding)
    /\ regen_text' = regen_text \o chunk.text
    /\ UNCHANGED <<helperVars, request, pc, events, calls, fetched, raised, is_deep, passes,
                   gatherVars, synthVars, resultVars>>

\* the regeneration stream raises
RegenRaise(description) ==
    /\ pc = "regen_stream"
    /\ raised' = description
    /\ Fail(events, description)
    /\ UNCHANGED <<helperVars, request, calls, fetched, yielded, is_deep, passes,
                   gatherVars, synthVars, resultVars, regenVars>>

\* lines 534-557: the regeneration stream is exhausted
RegenResolve(ok) ==
    /\ pc = "regen_stream"
    /\ LET start == RegenStart(regen_text, sources_list)
           g == GroundingStep(regen_text, regen_grounding, ok)
       IN  /\ normalized_chunk_urls' =
                 (IF regen_grounding = <<>> THEN normalized_chunk_urls ELSE g.normalized)
           /\ index_map' = (IF regen_grounding = <<>> THEN index_map ELSE g.index_map)
           /\ cited_text' = (IF regen_grounding = <<>> THEN start.cited ELSE g.cited)
           /\ sources_list' =
                 RegenFallback(IF regen_grounding = <<>> THEN start.sources ELSE g.sources,
                               regen_source_set)
           /\ fetched' = fetched \o g.fetches
    /\ pc' = "repair"
    /\ UNCHANGED <<helperVars, request, events, calls, yielded, raised, is_deep, passes,
                   gatherVars, synthVars, regenVars, repaired>>

\* _repair_sources asks the model service (lines 279-296)
NeedsRepairCall ==
    /\ sources_list = <<>>
    /\ Missing(_parse_sources_lines(_extract_sources_block(cited_text))) # {}

\* lines 563-567
Repaired(items) ==
    /\ repaired' = items
    /\ sources_list' = RepairedUrls(items)
    /\ cited_text' = (IF sources_list' # <<>> THEN RewriteSources(cited_text, items)
                      ELSE cited_text)

\* lines 559-567 when no model call is made: sources were found, or the text
\* has no Sources block, or every line of the block has its URL
RepairLocal ==
    /\ pc = "repair"
    /\ ~NeedsRepairCall
    /\ LET source_lines == _extract_sources_block(cited_text)
       IN  IF sources_list # <<>> \/ source_lines = <<>>
           THEN UNCHANGED <<sources_list, cited_text, repaired>>
           ELSE Repaired(_parse_sources_lines(source_lines))
    /\ pc' = "final"
    /\ UNCHANGED <<helperVars, request, events, calls, fetched, yielded, raised, is_deep, passes,
                   gatherVars, synthVars, regenVars, normalized_chunk_urls, index_map>>

\* lines 559-567, the repair call returns
RepairReturn(reply) ==
    /\ pc = "repair"
    /\ NeedsRepairCall
    /\ calls' = Append(calls, "repair")
    /\ Repaired(ApplyReply(_parse_sources_lines(_extract_sources_block(cited_text)), reply))
    /\ pc' = "final"
    /\ UNCHANGED <<helperVars, request, events, fetched, yielded, raised, is_deep, passes,
                   gatherVars, synthVars, regenVars, normalized_chunk_urls, index_map>>

\* the repair call raises (line 289 is outside the try of lines 297-304)
RepairRaise(description) ==
    /\ pc = "repair"
    /\ NeedsRepairCall
    /\ calls' = Append(calls, "repair")
    /\ raised' = description
    /\ Fail(events, description)
    /\ UNCHANGED <<helperVars, request, fetched, yielded, is_deep, passes,
                   gatherVars, synthVars, regenVars, resultVars>>

\* mutant: the regenerated output is gated again and regenerated again
Finish_Regate ==
    IF pc = "final" /\ ShouldRegen(regen_text, is_deep, sources_list)
    THEN /\ events' = Append(events, Status("Deep research mode: refining report..."))
         /\ calls' = Append(calls, "regeneration")
         /\ pc' = "regen_stream"
         /\ regen_source_set' = {}
         /\ regen_text' = <<>>
         /\ regen_grounding' = <<>>
         /\ UNCHANGED <<helperVars, request, fetched, yielded, raised, is_deep, passes,
                        gatherVars, synthVars, resultVars>>
    ELSE /\ \/ pc = "gate" /\ ~ShouldRegen(full_response_text, is_deep, sources_list)
            \/ pc = "final"
         /\ events' = Append(events, Final(cited_text, sources_list))
         /\ pc' = "done"
         /\ UNCHANGED <<helperVars, request, calls, fetched, yielded, raised, is_deep, passes,
                        gatherVars, synthVars, regenVars, resultVars>>

\* lines 569-573
Finish ==
    /\ \/ pc = "gate" /\ ~ShouldRegen(full_response_text, is_deep, sources_list)
       \/ pc = "final"
    /\ events' = Append(events, Final(cited_text, sources_list))
    /\ pc' = "done"
    /\ UNCHANGED <<helperVars, request, calls, fetched, yielded, raised, is_deep, passes,
                   gatherVars, synthVars, regenVars, resultVars>>

\* What a model call can raise here.  self.client (lines 28-34) raises
\* for a missing API key when it is first used, which is at the first model
\* call of the request; any call can meet a failure of the service.
Raisable ==
    IF calls = <<>> \/ (calls = <<"synthesis">> /\ yielded = 0)
    THEN Failures ELSE {"503 UNAVAILABLE"}

Next ==
    \/ Analyze
    \/ \E reply \in NotesReplies : GatherReturn(reply)
    \/ \E f \in Raisable : GatherRaise(f)
    \/ StartSynthesis
    \/ \E chunk \in Chunks : SynthChunk(chunk)
    \/ \E f \in Raisable : SynthRaise(f)
    \/ \E ok \in FetchOutcomes(ChunkUrlsOf(last_grounding)) : ResolveSources(ok)
    \/ Regenerate
    \/ \E chunk \in Chunks : RegenChunk(chunk)
    \/ \E f \in Raisable : RegenRaise(f)
    \/ \E ok \in FetchOutcomes(ChunkUrlsOf(regen_grounding)) : RegenResolve(ok)
    \/ RepairLocal
    \/ \E reply \in RepairReplies : RepairReturn(reply)
    \/ \E f \in Raisable : RepairRaise(f)
    \/ Finish

Spec == Init /\ [][Next]_vars

\* ------------------------------------------- helpers called on their own
\* The pure helpers of chat_stream, each applied once to arguments drawn
\* from the menus below.
SeqsUpTo(S, n) == UNION {[1..k -> S] : k \in 0..n}
Repeat(unit, n) == [i \in 1..n |-> unit]

\* a response text: an optional trigger phrase, heading lines, numbered
\* lines and a stretch of plain words
Phrases == {None, "i cannot directly", "I Cannot Directly", "search queries"}

GateShapes ==
    [refusal : Phrases, headings : 0..1,
     numbered : {0, OutlineLines - 1, OutlineLines},
     words : {0, 1, MinWords - 13, MinWords - 12, MinWords - 1, MinWords, 700, 900}]

GateText(shape) ==
    (IF shape.refusal = None THEN <<>> ELSE <<Txt(shape.refusal)>>)
        \o Repeat(Heading, shape.headings)
        \o Repeat(Numbered, shape.numbered)
        \o (IF shape.words = 0 THEN <<>> ELSE <<Words(shape.words)>>)

GateSources == {SubSeq(<<UrlA, UrlB, UrlC, UrlD, UrlE>>, 1, k) : k \in 0..5}

GateCalls ==
    {[fn |-> "should_regen", shape |-> shape, full_response_text |-> GateText(shape),
      is_deep |-> deep, sources_list |-> sources] :
        shape \in GateShapes, deep \in BOOLEAN, sources \in GateSources}

SourceMapCalls ==
    {[fn |-> "_build_source_map", chunk_urls |-> chunk_urls] :
        chunk_urls \in SeqsUpTo({None, UrlA, UrlB, UrlC}, MaxChunkUrls)}

\* a text of n distinct units
PlainText(n) == [i \in 1..n |-> Words(i)]

EndOffsets == {<<>>} \cup {<<end>> : end \in {-1, 0, 1, MaxTextLen + 2}}
IndexLists == {<<0>>, <<1, 0>>, <<2>>}
IndexMaps == {EmptyMap, (0 :> 1) @@ (1 :> 2), (0 :> 1) @@ (1 :> 1), (1 :> 1)}

CitationCalls ==
    {[fn |-> "_insert_citations", text |-> PlainText(n), supports |-> supports,
      index_map |-> map] :
        n \in 0..MaxTextLen,
        supports \in SeqsUpTo({Support(end, indices) :
                                  end \in EndOffsets, indices \in IndexLists},
                              MaxSupports),
        map \in IndexMaps}

FnInit ==
    /\ Idle
    /\ call \in GateCalls \cup SourceMapCalls \cup CitationCalls
    /\ ret = NoReturn
    /\ sem = 0
    /\ tasks = <<>>
    /\ NoWait

\* the helper returns
Return(value) ==
    /\ ~ret.done
    /\ ret' = [done |-> TRUE, value |-> value, raised |-> None]
    /\ UNCHANGED <<streamVars, waitVars, call, sem, tasks>>

\* lines 487-491
CallShouldRegen ==
    /\ call.fn = "should_regen"
    /\ Return(ShouldRegen(call.full_response_text, call.is_deep, call.sources_list))

\* lines 179-193
CallBuildSourceMap ==
    /\ call.fn = "_build_source_map"
    /\ Return(_build_source_map(call.chunk_urls))

\* lines 195-220
CallInsertCitations ==
    /\ call.fn = "_insert_citations"
    /\ Return(_insert_citations(call.text, call.supports, call.index_map))

FnNext ==
    \/ CallShouldRegen
    \/ CallBuildSourceMap
    \/ CallInsertCitations

FnSpec == FnInit /\ [][FnNext]_vars

\* ------------------------------------------------- the minimum-time wait
\* f"Deep research: validating sources... ({remaining}s)"
StatusWait(remaining) ==
    Event("status", <<[k |-> "text", s |-> "Deep research: validating sources...",
                       n |-> <<remaining>>, u |-> None]>>, <<>>)

Min(a, b) == IF a <= b THEN a ELSE b

\* int(min_seconds - elapsed) for elapsed < min_seconds: int() truncates
Remaining(floor, ticks) == (floor * TicksPerSecond - ticks) \div TicksPerSecond

\* the request arrives at line 371, start_time = time.monotonic()
WaitInit ==
    /\ Idle
    /\ NoCall
    /\ clock = 0
    /\ elapsed = 0
    /\ min_seconds \in -1..MaxFloor
    /\ sleeps = <<>>

\* lines 365-398: the mode is decided and, in deep mode, p gathering passes
\* are made, each returning no notes and no URL; d ticks have passed since
\* line 371 when control reaches line 400
WaitGathered(deep, p, d) ==
    /\ pc = "idle"
    /\ is_deep' = deep
    /\ passes' = (IF deep THEN p ELSE 0)
    /\ idx' = passes'
    /\ events' = <<Status("Analyzing request...")>>
                   \o (IF deep THEN <<Status("Deep research mode: planning research...")>>
                                      \o [i \in 1..p |-> StatusPass(i, p)]
                       ELSE <<>>)
    /\ calls' = [i \in 1..passes' |-> "notes"]
    /\ clock' = clock + d
    /\ pc' = (IF deep THEN "wait" ELSE "synthesize")
    /\ UNCHANGED <<request, fetched, yielded, raised, research_notes,
                   pre_source_set, synthVars, resultVars, regenVars,
                   call, ret, sem, tasks, elapsed, min_seconds, sleeps>>

\* lines 400-402: elapsed = time.monotonic() - start_time
WaitEnter ==
    /\ pc = "wait"
    /\ elapsed' = clock
    /\ pc' = "loop"
    /\ UNCHANGED <<request, events, calls, fetched, yielded, raised, is_deep,
                   passes, gatherVars, synthVars, resultVars, regenVars,
                   call, ret, sem, tasks, clock, min_seconds, sleeps>>

\* lines 403-409: the loop condition holds, the status event is yielded
\* and asyncio.sleep is called
WaitStatus ==
    /\ pc = "loop"
    /\ elapsed < min_seconds * TicksPerSecond
    /\ Len(sleeps) < MaxWaits
    /\ LET remaining == Remaining(min_seconds, elapsed)
       IN /\ events' = Append(events, StatusWait(remaining))
          /\ sleeps' = Append(sleeps, Min(MaxSleep, remaining))
    /\ pc' = "sleeping"
    /\ UNCHANGED <<request, calls, fetched, yielded, raised, is_deep,
                   passes, gatherVars, synthVars, resultVars, regenVars,
                   call, ret, sem, tasks, clock, elapsed, min_seconds>>

\* lines 409-410: the sleep is over, late ticks after the time requested,
\* and elapsed is read again
WaitWake(late) ==
    /\ pc = "sleeping"
    /\ clock' = clock + sleeps[Len(sleeps)] * TicksPerSecond + late
    /\ elapsed' = clock'
    /\ pc' = "loop"
    /\ UNCHANGED <<request, events, calls, fetched, yielded, raised, is_deep,
                   passes, gatherVars, synthVars, resultVars, regenVars,
                   call, ret, sem, tasks, min_seconds, sleeps>>

\* mutant: the loop is left after its first sleep
WaitOver_AfterOneSleep ==
    /\ pc = "loop"
    /\ (elapsed >= min_seconds * TicksPerSecond \/ sleeps # <<>>)
    /\ pc' = "synthesize"
    /\ UNCHANGED <<request, events, calls, fetched, yielded, raised, is_deep,
                   passes, gatherVars, synthVars, resultVars, regenVars,
                   call, ret, sem, tasks, waitVars>>

\* line 403: the loop condition fails, control reaches line 412
WaitOver ==
    /\ pc = "loop"
    /\ elapsed >= min_seconds * TicksPerSecond
    /\ pc' = "synthesize"
    /\ UNCHANGED <<request, events, calls, fetched, yielded, raised, is_deep,
                   passes, gatherVars, synthVars, resultVars, regenVars,
                   call, ret, sem, tasks, waitVars>>

WaitNext ==
    \/ \E deep \in BOOLEAN, p \in 0..MaxPasses, d \in 0..MaxGather :
          WaitGathered(deep, p, d)
    \/ WaitEnter
    \/ WaitStatus
    \/ \E late \in 0..MaxLate : WaitWake(late)
    \/ WaitOver
    \/ StartSynthesis

WaitSpec == WaitInit /\ [][WaitNext]_vars /\ WF_vars(WaitNext)

\* ------------------------------------------------------ _resolve_redirects
\* One call of _resolve_redirects with its fetch tasks.  A task is queued
\* (created, waiting at "async with sem"), fetching (it holds a permit and
\* awaits client.get), ok (client.get returned) or failed (client.get
\* raised: the 3-second timeout or a network error).
Task(state, result, error) == [state |-> state, result |-> result, error |-> error]

FetchErrors == {"timeout", "network error"}

\* the url lists: n urls taken in turn from a carrier that redirects, a
\* plain page and a carrier that does not redirect, starting at any of them
UrlCycle == <<Carrier1, UrlB, Carrier2>>

UrlList(first, n) == [i \in 1..n |-> UrlCycle[((first + i - 2) % Len(UrlCycle)) + 1]]

ResolveCalls ==
    {[fn |-> "_resolve_redirects", urls |-> UrlList(first, n)] :
        first \in 1..Len(UrlCycle), n \in 0..MaxUrls}

ResolveInit ==
    /\ Idle
    /\ call \in ResolveCalls
    /\ ret = NoReturn
    /\ sem = 0
    /\ tasks = <<>>
    /\ NoWait

\* lines 125-126
ResolveEmpty ==
    /\ call.fn = "_resolve_redirects"
    /\ call.urls = <<>>
    /\ Return(<<>>)

\* lines 128 and 138-143
CreateTasks ==
    /\ call.fn = "_resolve_redirects"
    /\ call.urls # <<>>
    /\ tasks = <<>>
    /\ ~ret.done
    /\ sem' = SemPermits
    /\ tasks' = [i \in 1..Len(call.urls) |-> Task("queued", None, None)]
    /\ UNCHANGED <<streamVars, waitVars, call, ret>>

\* line 131: the task enters "async with sem"
Acquire(i) ==
    /\ tasks[i].state = "queued"
    /\ sem > 0
    /\ sem' = sem - 1
    /\ tasks' = [tasks EXCEPT ![i] = Task("fetching", None, None)]
    /\ UNCHANGED <<streamVars, waitVars, call, ret>>

\* lines 133-134: client.get returned; leaving "async with" releases
FetchReturn(i) ==
    /\ tasks[i].state = "fetching"
    /\ sem' = sem + 1
    /\ tasks' = [tasks EXCEPT ![i] = Task("ok", Landing(call.urls[i]), None)]
    /\ UNCHANGED <<streamVars, waitVars, call, ret>>

\* mutant: the exception leaves fetch and gather, and ends the call
FetchRaise_Propagates(i, error) ==
    /\ tasks[i].state = "fetching"
    /\ ~ret.done
    /\ sem' = sem + 1
    /\ tasks' = [tasks EXCEPT ![i] = Task("failed", None, error)]
    /\ ret' = [done |-> TRUE, value |-> <<>>, raised |-> error]
    /\ UNCHANGED <<streamVars, waitVars, call>>

\* mutant: the handler returns without the permit being released
FetchRaise_KeepsPermit(i, error) ==
    /\ tasks[i].state = "fetching"
    /\ tasks' = [tasks EXCEPT ![i] = Task("failed", call.urls[i], error)]
    /\ UNCHANGED <<streamVars, waitVars, call, ret, sem>>

\* lines 135-136: client.get raised; the handler returns u, and leaving
\* "async with" releases
FetchRaise(i, error) ==
    /\ tasks[i].state = "fetching"
    /\ sem' = sem + 1
    /\ tasks' = [tasks EXCEPT ![i] = Task("failed", call.urls[i], error)]
    /\ UNCHANGED <<streamVars, waitVars, call, ret>>

\* line 144: every task is over, gather returns their results in order
Gather ==
    /\ call.fn = "_resolve_redirects"
    /\ tasks # <<>>
    /\ \A i \in 1..Len(tasks) : tasks[i].state \in {"ok", "failed"}
    /\ Return([i \in 1..Len(tasks) |-> tasks[i].result])

ResolveNext ==
    \/ ResolveEmpty
    \/ CreateTasks
    \/ \E i \in 1..Len(tasks) : Acquire(i)
    \/ \E i \in 1..Len(tasks) : FetchReturn(i)
    \/ \E i \in 1..Len(tasks), error \in FetchErrors : FetchRaise(i, error)
    \/ Gather

\* The event loop runs every task that can run, and every client.get ends
\* (it returns, or the timeout of line 140 raises).
ResolveSpec == ResolveInit /\ [][ResolveNext]_vars /\ WF_vars(ResolveNext)

\* ================================================================ properties
Last(seq) == seq[Len(seq)]
EventsOf(type) == {i \in 1..Len(events) : events[i].type = type}
TerminalEvents == EventsOf("final") \cup EventsOf("error")
Regenerated == \E i \in 1..Len(calls) : calls[i] = "regeneration"
Finished == pc = "done"
FinalEvent == Last(events)
Uncited(text) == SelectSeq(text, LAMBDA unit : unit.k # "cite")
TokenText == Concat([i \in 1..Len(events) |->
                        IF events[i].type = "token" THEN events[i].content ELSE <<>>])
NoDuplicates(seq) == \A i, j \in 1..Len(seq) : seq[i] = seq[j] => i = j

\* C1: at every moment the events hold at most one terminal event (final or
\* error, never both), it is the last event, it is there exactly when the
\* request is over, and a request that is not over can always take a step.
C1_OneTerminalEvent ==
    /\ Cardinality(TerminalEvents) <= 1
    /\ \A i \in TerminalEvents : i = Len(events)
    /\ (pc \in {"done", "error"}) <=> (TerminalEvents # {})
    /\ (pc = "done") => (events # <<>> /\ Last(events).type = "final")
    /\ (pc = "error") => (events # <<>> /\ Last(events).type = "error")
    /\ (TerminalEvents = {}) => ENABLED Next
    /\ (TerminalEvents # {}) => ~ENABLED Next

\* a regenerated request that ended with its final event
C1_Witness ==
    /\ Finished /\ Regenerated
    /\ Last(events).type = "final"
    /\ Len(events) > 3

\* C2: once a model call has raised, the request is in Error: the last event
\* is the one error event and carries the failure description, there is no
\* final event, and nothing more happens (no further model call).
C2_RaiseEndsInError ==
    (raised # None) =>
        /\ pc = "error"
        /\ Last(events) = Error(raised)
        /\ Cardinality(EventsOf("error")) = 1
        /\ EventsOf("final") = {}
        /\ ~ENABLED Next

\* the source-repair call raised
C2_Witness ==
    /\ raised # None
    /\ Last(calls) = "repair"
    /\ pc = "error"

\* C3 as stated: after the synthesis stream raised, the caller has seen
\* nothing but token events before the error event.
C3_OnlyTokensBeforeError ==
    (pc = "error" /\ Last(calls) = "synthesis") =>
        \A i \in 1..(Len(events) - 1) : events[i].type = "token"

\* C3 amended: after the synthesis stream raised, the caller has seen the
\* status events of the phases before the stream, then the token events of
\* exactly the fragments received so far (in order) with the log events of
\* the stream among them, then one error event, and no final event.
C3_TokensThenError ==
    (pc = "error" /\ Last(calls) = "synthesis") =>
        /\ Last(events).type = "error"
        /\ \A i \in 1..(Len(events) - 1) : events[i].type \in {"status", "token", "log"}
        /\ \A i, j \in 1..Len(events) :
              (i < j /\ events[j].type = "status") => events[i].type = "status"
        /\ TokenText = full_response_text
        /\ \A i \in EventsOf("token") : events[i].content # <<>>
        /\ Cardinality(EventsOf("token")) <= yielded
        /\ EventsOf("final") = {}

\* the synthesis stream raised after two token events and a log event
C3_Witness ==
    /\ pc = "error" /\ Last(calls) = "synthesis"
    /\ Cardinality(EventsOf("token")) = 2
    /\ EventsOf("log") # {}

\* C4: at most two streaming calls are made, the synthesis and at most one
\* regeneration.
C4_AtMostOneRegeneration ==
    /\ Cardinality({i \in 1..Len(calls) : calls[i] = "regeneration"}) <= 1
    /\ Cardinality({i \in 1..Len(calls) : calls[i] = "synthesis"}) <= 1
    /\ Cardinality({i \in 1..Len(calls) : calls[i] \in {"synthesis", "regeneration"}}) <= 2

\* the request finished although the regenerated output fails the gate too
C4_Witness ==
    /\ Finished /\ Regenerated
    /\ ShouldRegen(regen_text, is_deep, sources_list)

IsPrefix(p, t) == Len(p) <= Len(t) /\ SubSeq(t, 1, Len(p)) = p

\* what the regeneration pass itself obtained: the URLs of its stream, where
\* their fetches land, and the URLs of the repaired source lines
RegenUrls ==
    regen_source_set \cup {Landing(u) : u \in regen_source_set}
        \cup {repaired[i].url : i \in 1..Len(repaired)}

\* C5: after a regeneration the final event is built from the regenerated
\* pass alone: its content is the regenerated text (with citation markers
\* inserted, or with its Sources block rewritten from its own titles), and
\* every URL of its source list was obtained by the regeneration pass.
C5_FinalFromRegenerationOnly ==
    (Finished /\ Regenerated) =>
        LET c == FinalEvent.content
        IN  /\ \/ Uncited(c) = regen_text
               \/ \E k \in 0..Len(c) :
                     /\ IsPrefix(SubSeq(c, 1, k), regen_text)
                     /\ \A j \in (k + 1)..Len(c) :
                           \/ c[j] = Hdr
                           \/ /\ c[j].k = "src"
                              /\ \E i \in 1..Len(regen_text) : regen_text[i].s = c[j].s
            /\ \A u \in Range(FinalEvent.sources) : u \in RegenUrls
            /\ FinalEvent.sources = sources_list

\* the original pass had text and a URL the regeneration pass did not obtain,
\* and the final event has sources
C5_Witness ==
    /\ Finished /\ Regenerated
    /\ FinalEvent.sources # <<>>
    /\ full_response_text # <<>> /\ full_response_text # regen_text
    /\ \E u \in source_set : u \notin RegenUrls /\ ~_is_redirect(u)

\* C6: no final event lists a redirect-carrier URL.
C6_NoCarrierInFinal ==
    \A i \in EventsOf("final") :
        \A u \in Range(events[i].sources) : ~_is_redirect(u)

\* C7: no final event lists a URL twice.
C7_FinalSourcesUnique ==
    \A i \in EventsOf("final") : NoDuplicates(events[i].sources)

\* the grounding of the pass the final event comes from
FinalGrounding == IF Regenerated THEN regen_grounding ELSE last_grounding
FinalSupports == IF FinalGrounding = <<>> THEN <<>> ELSE FinalGrounding[1].supports

\* C8: every number n of every citation marker group of the final text is a
\* position of the final source list, and the URL there is the resolved URL
\* of a grounding chunk named by a support that ends at the marker's offset.
C8_MarkersMatchSources ==
    Finished =>
        LET c == FinalEvent.content
            srcs == FinalEvent.sources
            Offset(q) == Cardinality({j \in 1..(q - 1) : c[j].k # "cite"})
        IN  \A q \in 1..Len(c) :
                (c[q].k = "cite") =>
                    \A m \in 1..Len(c[q].n) :
                        /\ 1 <= c[q].n[m] /\ c[q].n[m] <= Len(srcs)
                        /\ \E j \in 1..Len(FinalSupports) :
                              /\ FinalSupports[j].end # <<>>
                              /\ Clamp(FinalSupports[j].end[1], Len(Uncited(c))) = Offset(q)
                              /\ \E i \in Range(FinalSupports[j].indices) :
                                    /\ i >= 0 /\ i < Len(normalized_chunk_urls)
                                    /\ normalized_chunk_urls[i + 1] = srcs[c[q].n[m]]

\* a regenerated final text with a two-number marker group, where resolution
\* nulled one chunk URL and collapsed two others into one source
C8_Witness ==
    /\ Finished /\ Regenerated
    /\ \E q \in 1..Len(FinalEvent.content) :
          FinalEvent.content[q].k = "cite" /\ Len(FinalEvent.content[q].n) = 2
    /\ None \in Range(normalized_chunk_urls)
    /\ ~NoDuplicates(SelectSeq(normalized_chunk_urls, LAMBDA u : u # None))

\* the source list the grounding of the synthesis pass gave
GroundingSources == Dedupe(SelectSeq(normalized_chunk_urls, LAMBDA u : u # None), {})

\* the usable URLs of a pool, in sorted order
RealSorted(S) ==
    SelectSeq(UrlOrder, LAMBDA u : u \in S /\ u # SvgNs /\ u \notin {Carrier1, Carrier2})

\* C9 as stated: without regeneration the final sources are the grounding
\* map when grounding metadata was observed, otherwise the stream's URLs when
\* any were discovered, otherwise the gathering pool.
C9_PriorityByObservation ==
    (Finished /\ ~Regenerated) =>
        FinalEvent.sources =
            IF last_grounding # <<>> THEN GroundingSources
            ELSE IF source_set # {} THEN RealSorted(source_set)
            ELSE RealSorted(pre_source_set)

\* C9 amended: without regeneration the final sources are the grounding map
\* when it is not empty, otherwise the usable URLs of the stream when there
\* are any, otherwise the usable URLs of the gathering pool.
C9_PriorityByNonEmptiness ==
    (Finished /\ ~Regenerated) =>
        FinalEvent.sources =
            IF GroundingSources # <<>> THEN GroundingSources
            ELSE IF RealSorted(source_set) # <<>> THEN RealSorted(source_set)
            ELSE RealSorted(pre_source_set)

\* grounding metadata was observed, its map is empty, and the final sources
\* come from the stream's URLs
C9_Witness ==
    /\ Finished /\ ~Regenerated
    /\ last_grounding # <<>> /\ GroundingSources = <<>>
    /\ FinalEvent.sources # <<>>
    /\ FinalEvent.sources = RealSorted(source_set)

\* the pool that supplied the final sources of the synthesis pass
SupplyingPool ==
    IF GroundingSources # <<>> THEN Range(ChunkUrlsOf(last_grounding)) \ {None}
    ELSE IF RealSorted(source_set) # <<>> THEN source_set
    ELSE pre_source_set

\* C10: without regeneration, every URL of the pool that supplied the final
\* sources was fetched by redirect resolution, and the landing URL of every
\* carrier of that pool that leads off the redirect host is in the list.
C10_EveryPoolResolved ==
    (Finished /\ ~Regenerated) =>
        \A u \in SupplyingPool :
            /\ u \in Range(fetched)
            /\ (_is_redirect(u) /\ ~_is_redirect(Landing(u)) /\ GroundingSources = <<>>)
                  => Landing(u) \in Range(FinalEvent.sources)

\* the source list the grounding of the regeneration pass gave
RegenGroundingSources == IF regen_grounding = <<>> THEN <<>> ELSE GroundingSources

\* C11: after a regeneration the final sources follow the three-step chain
\* of the synthesis pass: the regeneration's grounding map when it is not
\* empty, otherwise the usable URLs of the regeneration stream, otherwise
\* the usable URLs pooled during gathering.
C11_RegenFallsBackToPool ==
    (Finished /\ Regenerated) =>
        IF RegenGroundingSources # <<>>
        THEN FinalEvent.sources = RegenGroundingSources
        ELSE IF RealSorted(regen_source_set) # <<>>
        THEN FinalEvent.sources = RealSorted(regen_source_set)
        ELSE (RealSorted(pre_source_set) # <<>>)
                => FinalEvent.sources = RealSorted(pre_source_set)

\* the return value of the helper that was called on its own
Returned(fn) == call.fn = fn /\ ret.done

\* C12: the gate asks for regeneration exactly when the text holds a trigger
\* phrase (in any letter case), or the mode is deep and there are fewer than
\* 3 sources or the text looks like an outline, or the mode is deep and the
\* text has fewer than 600 words.  So deep mode with 2 sources and 700 words
\* gives true, deep mode with 5 sources and 900 words and no phrase gives
\* false, "i cannot directly" gives true in any mode, and conversational
\* mode without a phrase gives false whatever the sources and the length.
C12_GateDecision ==
    Returned("should_regen") =>
        LET shape == call.shape
            phrase == shape.refusal # None
            words == (IF shape.refusal = None THEN 0
                      ELSE IF shape.refusal = "search queries" THEN 2 ELSE 3)
                     + 2 * shape.headings + 2 * shape.numbered + shape.words
            sources == Len(call.sources_list)
            outline == \/ (~phrase /\ shape.headings + shape.numbered + shape.words = 0)
                       \/ (shape.numbered >= 6 /\ shape.headings = 0 /\ words < 600)
        IN  /\ ret.value = (\/ phrase
                            \/ (call.is_deep /\ (sources < 3 \/ outline))
                            \/ (call.is_deep /\ words < 600))
            /\ (call.is_deep /\ sources = 2 /\ words = 700) => ret.value
            /\ (call.is_deep /\ sources = 5 /\ words = 900 /\ ~phrase) => ~ret.value
            /\ (shape.refusal = "i cannot directly") => ret.value
            /\ (~call.is_deep /\ ~phrase) => ~ret.value

\* the gate returned true for a deep-mode text of 700 plain words with
\* exactly 2 sources
C12_Witness ==
    /\ Returned("should_regen")
    /\ call.is_deep
    /\ call.full_response_text = <<Words(700)>>
    /\ Len(call.sources_list) = 2
    /\ ret.value

InFlight == Cardinality({i \in 1..Len(tasks) : tasks[i].state = "fetching"})

\* C13: a call of _resolve_redirects that is over has returned a list, not
\* raised; the list is as long as the input, position i holds where the
\* fetch of input i landed when it succeeded and input i itself when it
\* failed (timeout or network error), and the empty input gives the empty
\* list.
C13_ResolveKeepsEveryEntry ==
    Returned("_resolve_redirects") =>
        /\ ret.raised = None
        /\ Len(ret.value) = Len(call.urls)
        /\ (call.urls = <<>>) => (ret.value = <<>>)
        /\ \A i \in 1..Len(call.urls) :
              /\ tasks[i].state \in {"ok", "failed"}
              /\ tasks[i].state = "ok" => ret.value[i] = Landing(call.urls[i])
              /\ tasks[i].state = "failed" => ret.value[i] = call.urls[i]

\* five urls were resolved: one fetch timed out, one met a network error,
\* and one succeeded and landed elsewhere
C13_Witness ==
    /\ Returned("_resolve_redirects")
    /\ Len(call.urls) = 5
    /\ \E i, j, k \in 1..Len(tasks) :
          /\ tasks[i].error = "timeout"
          /\ tasks[j].error = "network error"
          /\ tasks[k].state = "ok" /\ ret.value[k] # call.urls[k]

\* C14: in one call of _resolve_redirects at most 4 fetches are in flight
\* at any moment, the permits not held by a fetch in flight are free (a
\* fetch that failed has released its own), and the call eventually
\* returns with every url fetched.
C14_AtMostFourInFlight ==
    /\ [](tasks # <<>> => (InFlight <= 4 /\ sem >= 0 /\ sem + InFlight = 4))
    /\ <>(ret.done /\ \A i \in 1..Len(tasks) : tasks[i].state \in {"ok", "failed"})

\* four fetches are in flight after a fifth one failed: one of them holds
\* the permit the failed fetch released
C14_Witness ==
    /\ InFlight = 4
    /\ \E i \in 1..Len(tasks) : tasks[i].state = "failed"

\* the 1-based positions of chunk_urls that hold a url
NonNull(chunk_urls) == {i \in 1..Len(chunk_urls) : chunk_urls[i] # None}
FirstAt(chunk_urls, url) ==
    CHOOSE i \in NonNull(chunk_urls) :
        chunk_urls[i] = url /\ \A j \in NonNull(chunk_urls) : chunk_urls[j] = url => i <= j

\* C15: _build_source_map returns a sources list that holds each non-null
\* url of chunk_urls exactly once, in the order of first occurrence, and an
\* index map defined exactly on the (0-based) positions that hold a url,
\* which maps each of them to the 1-based place of its url in sources.
C15_SourceMap ==
    Returned("_build_source_map") =>
        LET chunk_urls == call.chunk_urls
            sources == ret.value.sources
            map == ret.value.index_map
        IN  /\ Range(sources) = Range(chunk_urls) \ {None}
            /\ NoDuplicates(sources)
            /\ \A a, b \in 1..Len(sources) :
                  a < b => FirstAt(chunk_urls, sources[a]) < FirstAt(chunk_urls, sources[b])
            /\ DOMAIN map = {i - 1 : i \in NonNull(chunk_urls)}
            /\ \A i \in NonNull(chunk_urls) :
                  /\ map[i - 1] \in 1..Len(sources)
                  /\ sources[map[i - 1]] = chunk_urls[i]
            /\ \A i, j \in NonNull(chunk_urls) :
                  chunk_urls[i] = chunk_urls[j] => map[i - 1] = map[j - 1]

\* the map of four chunks: a url, a chunk without url, a second url, and
\* the first url again
C15_Witness ==
    /\ Returned("_build_source_map")
    /\ call.chunk_urls = <<UrlB, None, UrlA, UrlB>>
    /\ ret.value.sources = <<UrlB, UrlA>>
    /\ DOMAIN ret.value.index_map = {0, 2, 3}
    /\ ret.value.index_map[3] = 1

\* the marker groups of a cited text with their offsets in the text without
\* markers: the set of <<offset, numbers>>, and how many groups there are
Groups(cited) ==
    {<<Cardinality({j \in 1..(q - 1) : cited[j].k # "cite"}), cited[q].n>> :
        q \in {i \in 1..Len(cited) : cited[i].k = "cite"}}
GroupCount(cited) == Cardinality({i \in 1..Len(cited) : cited[i].k = "cite"})

\* the supports that insert something: their end is not null and at least
\* one of their chunk indices is mapped
Live(supports, map) ==
    {j \in 1..Len(supports) :
        /\ supports[j].end # <<>>
        /\ Range(supports[j].indices) \cap DOMAIN map # {}}

\* C16: _insert_citations only inserts.  Without its marker groups the
\* result is the input text, and every marker group stands at an offset of
\* the input text that is the clamped end of a support: no offset is moved
\* by the groups inserted before it.
C16_OnlyInserts ==
    Returned("_insert_citations") =>
        LET text == call.text
            supports == call.supports
        IN  /\ Uncited(ret.value) = text
            /\ \A g \in Groups(ret.value) :
                  /\ g[1] \in 0..Len(text)
                  /\ \E j \in 1..Len(supports) :
                        /\ supports[j].end # <<>>
                        /\ g[1] = Clamp(supports[j].end[1], Len(text))
            /\ (GroupCount(ret.value) = 0) => (ret.value = text)

\* two marker groups were inserted inside a text of three units, the second
\* one after the first
C16_Witness ==
    /\ Returned("_insert_citations")
    /\ Len(call.text) = 3
    /\ {g[1] : g \in Groups(ret.value)} = {0, 1}
    /\ ret.value[1].k = "cite" /\ ret.value[3].k = "cite"

\* C17: for each value p of the clamped end (below 0 gives 0, beyond the
\* length gives the length) among the supports with a non-null end and a
\* mapped chunk index, the result has exactly one marker group at offset p,
\* and it lists the display indices of all those supports at p, each once,
\* in ascending order; there is no other marker group.
C17_OneGroupPerOffset ==
    Returned("_insert_citations") =>
        LET text == call.text
            supports == call.supports
            map == call.index_map
            live == Live(supports, map)
            at(j) == IF supports[j].end[1] < 0 THEN 0
                     ELSE IF supports[j].end[1] > Len(text) THEN Len(text)
                     ELSE supports[j].end[1]
            numbers(p) == {map[i] : i \in UNION {Range(supports[j].indices) \cap DOMAIN map :
                                                    j \in {l \in live : at(l) = p}}}
        IN  /\ {g[1] : g \in Groups(ret.value)} = {at(j) : j \in live}
            /\ GroupCount(ret.value) = Cardinality({at(j) : j \in live})
            /\ \A g \in Groups(ret.value) :
                  /\ Range(g[2]) = numbers(g[1])
                  /\ \A a, b \in 1..Len(g[2]) : a < b => g[2][a] < g[2][b]

\* a support with a negative end and a support with end 0 share the one
\* marker group, at offset 0, and it lists two display indices
C17_Witness ==
    /\ Returned("_insert_citations")
    /\ Len(call.text) = 2
    /\ \E i, j \in Live(call.supports, call.index_map) :
          call.supports[i].end[1] < 0 /\ call.supports[j].end[1] = 0
    /\ \E g \in Groups(ret.value) : g[1] = 0 /\ Len(g[2]) = 2
    /\ GroupCount(ret.value) = 1

\* the lines of the last Sources block of a text
LastBlock(text) ==
    LET H == {i \in 1..Len(text) : text[i].k = "hdr"}
    IN  IF H = {} THEN <<>>
        ELSE SubSeq(text, (CHOOSE h \in H : \A i \in H : i <= h) + 1, Len(text))

\* C18: when source repair recovered URLs, the final text ends with a
\* Sources block of one line per recovered source, and the line numbered
\* [n] is the n-th line and carries the n-th URL of the final source list.
C18_RepairedLinesNumbered ==
    (Finished /\ RepairedUrls(repaired) # <<>>) =>
        LET lines == LastBlock(FinalEvent.content)
            sources == FinalEvent.sources
        IN  /\ Len(lines) = Len(sources)
            /\ \A i \in 1..Len(lines) :
                  /\ lines[i].k = "src"
                  /\ lines[i].n = <<i>>
                  /\ lines[i].u = sources[i]

\* the source lines as the regenerated text had them
ParsedLines == _parse_sources_lines(_extract_sources_block(regen_text))

\* the reply of the repair call gave no URL to any line that lacked one
NoUrlFromReply ==
    /\ Len(repaired) = Len(ParsedLines)
    /\ \A i \in 1..Len(repaired) : ParsedLines[i].url = None => repaired[i].url = None

\* C19: when the repair call returned and its reply gave no URL to any
\* title, there is no error event and the final event has the regenerated
\* text unchanged and an empty source list.
C19_RepairDegrades ==
    (Finished /\ Last(calls) = "repair" /\ NoUrlFromReply) =>
        /\ EventsOf("error") = {}
        /\ FinalEvent.content = regen_text
        /\ FinalEvent.sources = <<>>

IsPassStatus(event) == event.type = "status" /\ event.content[1].s = "Research pass"
PassStatuses == SelectSeq(events, IsPassStatus)
NotesCalls == {i \in 1..Len(calls) : calls[i] = "notes"}

\* C20: the plain gathering calls come before every other model call; each
\* of them has its own status event, the k-th one announcing pass k of N,
\* emitted by the time the call is made; no more than N are made, and once
\* the streaming synthesis call has started exactly N have been made and
\* have returned.  In conversational mode there is no gathering call and
\* no research-pass status, and the first model call is the synthesis.
C20_PassesThenSynthesis ==
    /\ \A i, j \in 1..Len(calls) : (calls[i] = "notes" /\ calls[j] # "notes") => i < j
    /\ Len(PassStatuses) = Cardinality(NotesCalls)
    /\ \A k \in 1..Len(PassStatuses) : PassStatuses[k] = StatusPass(k, passes)
    /\ Cardinality(NotesCalls) <= passes
    /\ (\E i \in 1..Len(calls) : calls[i] = "synthesis") =>
          /\ Cardinality(NotesCalls) = passes
          /\ idx = passes
    /\ ~is_deep =>
          /\ NotesCalls = {}
          /\ PassStatuses = <<>>
          /\ calls # <<>> => calls[1] = "synthesis"

\* a deep request with two passes finished: two gathering calls, then the
\* synthesis
C20_Witness ==
    /\ Finished
    /\ is_deep /\ passes = 2
    /\ Len(calls) >= 3
    /\ SubSeq(calls, 1, 3) = <<"notes", "notes", "synthesis">>
    /\ Len(PassStatuses) = 2

\* C22: the token events carry, in arrival order, every text fragment
\* received from the synthesis stream and from the regeneration stream.
C22_EveryFragmentEmitted ==
    /\ TokenText = full_response_text \o regen_text
    /\ \A i \in EventsOf("token") : events[i].content # <<>>

\* C23: when regeneration did not run, the final content without its
\* citation marker groups is the concatenation of the contents of the token
\* events in emission order, and every token event precedes the final event.
C23_FinalIsTokensPlusMarkers ==
    (Finished /\ ~Regenerated) =>
        /\ Uncited(FinalEvent.content) = TokenText
        /\ FinalEvent.type = "final"
        /\ \A i \in EventsOf("token") : i < Len(events)
        /\ EventsOf("final") = {Len(events)}

\* a request finished without regeneration; its final text has a citation
\* marker group inside the text of a token event of several lines
C23_Witness ==
    /\ Finished /\ ~Regenerated
    /\ \E q \in 1..Len(FinalEvent.content) : FinalEvent.content[q].k = "cite"
    /\ \E i \in EventsOf("token") : Len(events[i].content) > 1

\* the status events of the wait loop, in emission order
IsWaitStatus(e) ==
    /\ e.type = "status"
    /\ e.content[1].s = "Deep research: validating sources..."
WaitStatuses == SelectSeq(events, IsWaitStatus)

\* C21: in deep mode the synthesis call does not start before min_seconds
\* have passed since start_time; every sleep is of at most 10 seconds and
\* follows a status event that reports the whole seconds still to wait;
\* with a floor of 0 or less no wait status is emitted.
C21_FloorBeforeSynthesis ==
    /\ (is_deep /\ \E i \in 1..Len(calls) : calls[i] = "synthesis")
          => clock >= min_seconds * TicksPerSecond
    /\ Len(WaitStatuses) = Len(sleeps)
    /\ \A i \in 1..Len(sleeps) :
          /\ sleeps[i] <= MaxSleep
          /\ sleeps[i] = Min(MaxSleep, WaitStatuses[i].content[1].n[1])
    /\ pc = "sleeping" =>
          Last(WaitStatuses).content[1].n[1] = Remaining(min_seconds, clock)
    /\ min_seconds <= 0 => WaitStatuses = <<>>

C21_Witness ==
    /\ is_deep
    /\ calls # <<>> /\ Last(calls) = "synthesis"
    /\ min_seconds > MaxSleep
    /\ Len(sleeps) >= 2
    /\ sleeps[1] = MaxSleep
    /\ clock > min_seconds * TicksPerSecond

\* C24: every sleep the wait loop asks for lasts between 1 and 10 seconds,
\* so the loop emits at most min_seconds status events.
C24_EveryWaitProgresses ==
    /\ \A i \in 1..Len(sleeps) : sleeps[i] \in 1..MaxSleep
    /\ min_seconds >= 0 => Len(WaitStatuses) <= min_seconds
====
